---- MODULE Spec2Model ----
(***************************************************************************)
(* Personal custom formats of arr-dashboard: the CRUD routes               *)
(* (routes/personal-custom-formats.ts) and the deployment routes           *)
(* (routes/personal-custom-formats-deployment.ts), as a state machine.     *)
(* Every handler is split at its awaits: each storage call and each remote *)
(* call is one step, so that concurrent requests interleave between them.  *)
(***************************************************************************)
EXTENDS Integers, Sequences, FiniteSets, Bags, TLC

\* ------------------------------------------------------------------ bounds
MaxNow == 3          \* requests received in one behaviour (also the clock)

\* ------------------------------------------------------------ input domains
Slots == {"q1", "q2"}
Users == {"u1", "u2"}
ServiceTypes == {"RADARR", "SONARR"}
Names == {"A", "B"}
SpecVals == {"s1", "s2"}
Undef == "undef"
EmptyName == ""
EmptySpecs == "[]"
Flags == {"undef", "true", "false"}

\* The bodies the CRUD requests are drawn from: <<userId, serviceType>> of a create,
\* <<name, includeCustomFormatWhenRenaming, specifications>> of an update.
Creators == {<<"u1", "RADARR">>, <<"u1", "SONARR">>, <<"u2", "RADARR">>}
Patches ==
    {<<"A", "undef", "undef">>, <<"B", "undef", "undef">>, <<"undef", "true", "undef">>,
     <<"undef", "undef", "s1">>, <<"undef", "undef", "s2">>, <<"B", "undef", "s2">>,
     <<"", "undef", "undef">>, <<"undef", "undef", "[]">>}

Instances == {"i1", "i2", "i3"}
NoInstance == "i0"
InstanceUser == [i1 |-> "u1", i2 |-> "u1", i3 |-> "u2"]
InstanceService == [i1 |-> "RADARR", i2 |-> "SONARR", i3 |-> "RADARR"]

VARIABLES
    cfs,       \* PersonalCustomFormat table: a sequence, the id is the position
    ledger,    \* PersonalCFDeployment table: a set of rows
    nextDepId, \* ids handed out to PersonalCFDeployment rows so far
    remote,    \* per instance, the custom formats of the remote service, in list order
    deployed,  \* history: the (instance, record) pairs whose deployment has run to its
               \* end after a remote call that succeeded
    req,       \* the requests in flight, each with its local variables: a bag
    resp,      \* the last reply sent
    now        \* requests received so far; new Date() reads it

vars == <<cfs, ledger, nextDepId, remote, deployed, req, resp, now>>

\* The requests in flight are a bag: which of two requests arrived first decides
\* nothing. At most one per slot is in flight.
InFlight == BagToSet(req)
Add(r) == req (+) SetToBag({r})
Drop(r) == req (-) SetToBag({r})
Swap(r, r2) == (req (-) SetToBag({r})) (+) SetToBag({r2})
NoReply == [op |-> "none", status |-> 0]

StoredIds == DOMAIN cfs
\* the ids a request may name: every stored one, and one that is not stored
CFIds == 1..(Len(cfs) + 1)

\* ------------------------------------------------------------ storage helpers

\* z.string().min(1) of the name, z.array(...).min(1) of the specifications
ValidName(name) == name /= EmptyName
ValidSpecs(specs) == specs /= EmptySpecs

FindAny(id, userId) == id \in StoredIds

\* personalCustomFormat.findFirst({where: {id, userId, deletedAt: null}})
FindOwned(id, userId) ==
    /\ id \in StoredIds
    /\ cfs[id].userId = userId
    /\ cfs[id].deletedAt = 0

\* personalCustomFormat.findFirst({where: {userId, name, serviceType, deletedAt: null}})
FindByName(userId, name, serviceType) ==
    \E i \in StoredIds :
        /\ cfs[i].userId = userId
        /\ cfs[i].name = name
        /\ cfs[i].serviceType = serviceType
        /\ cfs[i].deletedAt = 0

\* history: a soft-deleted row has the triple
SoftDeletedTwin(userId, name, serviceType) ==
    \E i \in StoredIds :
        /\ cfs[i].userId = userId
        /\ cfs[i].name = name
        /\ cfs[i].serviceType = serviceType
        /\ cfs[i].deletedAt /= 0

NoUniqueIndex(self, userId, name, serviceType) == FALSE

\* The table's unique index on (userId, name, serviceType): it covers every row,
\* soft-deleted ones included. self is the row being written (0 on insert).
UniqueViolation(self, userId, name, serviceType) ==
    \E i \in StoredIds :
        /\ i /= self
        /\ cfs[i].userId = userId
        /\ cfs[i].name = name
        /\ cfs[i].serviceType = serviceType

FlagValue(flag, dflt) ==
    IF flag = "true" THEN TRUE ELSE IF flag = "false" THEN FALSE ELSE dflt

Free == BagCardinality(req) < Cardinality(Slots)

\* A request is received: the clock advances.
Receive == now < MaxNow /\ now' = now + 1

\* ------------------------------------------------------------ POST /

\* validation, then the duplicate check (findFirst)
PostFind(userId, name, serviceType, flag, specs) ==
    /\ Free
    /\ Receive
    /\ IF ~(ValidName(name) /\ ValidSpecs(specs))
       THEN /\ resp' = [op |-> "post", status |-> 400, error |-> "VALIDATION_ERROR"]
            /\ UNCHANGED req
       ELSE IF FindByName(userId, name, serviceType)
       THEN /\ resp' = [op |-> "post", status |-> 409, error |-> "DUPLICATE_NAME"]
            /\ UNCHANGED req
       ELSE /\ req' = Add(
                        [op |-> "post", pc |-> "create", userId |-> userId, name |-> name,
                         serviceType |-> serviceType, flag |-> flag, specs |-> specs,
                         afterSoftDelete |->
                             SoftDeletedTwin(userId, name, serviceType)])
            /\ UNCHANGED resp
    /\ UNCHANGED <<cfs, ledger, nextDepId, remote, deployed>>

NewCF(r) ==
    [userId |-> r.userId, name |-> r.name, serviceType |-> r.serviceType,
     includeCustomFormatWhenRenaming |-> FlagValue(r.flag, FALSE),
     specifications |-> r.specs, version |-> 1, deletedAt |-> 0]

\* personalCustomFormat.create; a violated unique index throws, the catch replies 500
PostCreate(r) ==
    /\ r.op = "post" /\ r.pc = "create"
    /\ IF UniqueViolation(0, r.userId, r.name, r.serviceType)
       THEN /\ resp' = [op |-> "post", status |-> 500, error |-> "CREATE_FAILED",
                        afterSoftDelete |-> r.afterSoftDelete,
                        liveDuplicate |-> FindByName(r.userId, r.name, r.serviceType)]
            /\ UNCHANGED cfs
       ELSE /\ cfs' = Append(cfs, NewCF(r))
            /\ resp' = [op |-> "post", status |-> 201, error |-> "",
                        afterSoftDelete |-> r.afterSoftDelete,
                        id |-> Len(cfs) + 1, customFormat |-> NewCF(r)]
    /\ req' = Drop(r)
    /\ UNCHANGED <<ledger, nextDepId, remote, deployed, now>>

\* ------------------------------------------------------------ GET /:id

\* the whole handler: the ownership check (findFirst), then the reply; id is the
\* path parameter of the request
GetCF(userId, id) ==
    /\ Receive
    /\ resp' = IF ~FindOwned(id, userId)
               THEN [op |-> "get", status |-> 404, error |-> "NOT_FOUND", id |-> id]
               ELSE [op |-> "get", status |-> 200, error |-> "", id |-> id,
                     customFormat |-> cfs[id]]
    /\ UNCHANGED <<cfs, ledger, nextDepId, remote, deployed, req>>

\* ------------------------------------------------------------ PUT /:id

BumpOnDifference(cf, specs) ==
    IF specs /= Undef /\ specs /= cf.specifications THEN cf.version + 1 ELSE cf.version

AlwaysBump(cf, specs) == cf.version + 1

\* const newVersion = specifications ? cf.version + 1 : cf.version
NewVersion(cf, specs) == IF specs /= Undef THEN cf.version + 1 ELSE cf.version

\* validation, then the ownership check (findFirst)
PutFind(userId, id, name, flag, specs) ==
    /\ Free
    /\ Receive
    /\ IF ~(ValidName(name) /\ ValidSpecs(specs))
       THEN /\ resp' = [op |-> "put", status |-> 400, error |-> "VALIDATION_ERROR"]
            /\ UNCHANGED req
       ELSE IF ~FindOwned(id, userId)
       THEN /\ resp' = [op |-> "put", status |-> 404, error |-> "NOT_FOUND"]
            /\ UNCHANGED req
       ELSE /\ req' = Add(
                        [op |-> "put",
                         pc |-> IF name /= Undef /\ name /= cfs[id].name
                                THEN "dup" ELSE "write",
                         userId |-> userId, id |-> id, name |-> name, flag |-> flag,
                         specs |-> specs, cf |-> cfs[id]])
            /\ UNCHANGED resp
    /\ UNCHANGED <<cfs, ledger, nextDepId, remote, deployed>>

\* the duplicate check of a rename (findFirst)
PutDup(r) ==
    /\ r.op = "put" /\ r.pc = "dup"
    /\ IF FindByName(r.userId, r.name, r.cf.serviceType)
       THEN /\ resp' = [op |-> "put", status |-> 409, error |-> "DUPLICATE_NAME"]
            /\ req' = Drop(r)
       ELSE /\ req' = Swap(r, [r EXCEPT !.pc = "write"])
            /\ UNCHANGED resp
    /\ UNCHANGED <<cfs, ledger, nextDepId, remote, deployed, now>>

\* the row as personalCustomFormat.update({where: {id}, data}) leaves it
UpdatedCF(old, r) ==
    [old EXCEPT
        !.name = IF r.name /= Undef THEN r.name ELSE @,
        !.includeCustomFormatWhenRenaming = FlagValue(r.flag, @),
        !.specifications = IF r.specs /= Undef THEN r.specs ELSE @,
        !.version = NewVersion(r.cf, r.specs)]

\* personalCustomFormat.update; a violated unique index throws, the catch replies 500
PutWrite(r) ==
    /\ r.op = "put" /\ r.pc = "write"
    /\ IF r.name /= Undef
          /\ UniqueViolation(r.id, cfs[r.id].userId, r.name, cfs[r.id].serviceType)
       THEN /\ resp' = [op |-> "put", status |-> 500, error |-> "UPDATE_FAILED"]
            /\ UNCHANGED cfs
       ELSE /\ cfs' = [cfs EXCEPT ![r.id] = UpdatedCF(@, r)]
            /\ resp' = [op |-> "put", status |-> 200, error |-> "", id |-> r.id,
                        specs |-> r.specs, before |-> cfs[r.id],
                        readVersion |-> r.cf.version,
                        customFormat |-> UpdatedCF(cfs[r.id], r)]
    /\ req' = Drop(r)
    /\ UNCHANGED <<ledger, nextDepId, remote, deployed, now>>

\* ------------------------------------------------------------ DELETE /:id

\* the ownership check (findFirst)
DeleteFind(userId, id) ==
    /\ Free
    /\ Receive
    /\ IF ~FindOwned(id, userId)
       THEN /\ resp' = [op |-> "delete", status |-> 404, error |-> "NOT_FOUND"]
            /\ UNCHANGED req
       ELSE /\ req' = Add(
                        [op |-> "delete", pc |-> "write", userId |-> userId, id |-> id])
            /\ UNCHANGED resp
    /\ UNCHANGED <<cfs, ledger, nextDepId, remote, deployed>>

\* personalCustomFormat.update({where: {id}, data: {deletedAt: new Date()}})
DeleteWrite(r) ==
    /\ r.op = "delete" /\ r.pc = "write"
    /\ cfs' = [cfs EXCEPT ![r.id].deletedAt = now]
    /\ resp' = [op |-> "delete", status |-> 200, error |-> "", id |-> r.id]
    /\ req' = Drop(r)
    /\ UNCHANGED <<ledger, nextDepId, remote, deployed, now>>

\* ------------------------------------------------------------ POST /deploy-multiple

\* the ascending sequence of the members of a set of ids (the table's row order)
RECURSIVE Ascending(_)
Ascending(S) ==
    IF S = {} THEN <<>>
    ELSE LET m == CHOOSE x \in S : \A y \in S : x <= y
         IN <<m>> \o Ascending(S \ {m})

Range(seq) == {seq[i] : i \in DOMAIN seq}

\* one row of the table with its id, as findMany returns it
Row(i) ==
    [id |-> i, name |-> cfs[i].name, serviceType |-> cfs[i].serviceType,
     includeCustomFormatWhenRenaming |-> cfs[i].includeCustomFormatWhenRenaming,
     specifications |-> cfs[i].specifications, version |-> cfs[i].version]

\* personalCustomFormat.findMany({where: {id: {in: ids}, userId, deletedAt: null}})
FindMany(ids, userId) ==
    LET found == {i \in Range(ids) : FindOwned(i, userId)}
        order == Ascending(found)
    IN [j \in DOMAIN order |-> Row(order[j])]

AnyInstance(instanceId, userId) == instanceId \in Instances

\* serviceInstance.findFirst({where: {id: instanceId, userId}})
FindInstance(instanceId, userId) ==
    instanceId \in Instances /\ InstanceUser[instanceId] = userId

NeverMismatch(personalCFs, instanceId) == FALSE

\* personalCFs.find((cf) => cf.serviceType !== instance.service)
Mismatch(personalCFs, instanceId) ==
    \E j \in DOMAIN personalCFs : personalCFs[j].serviceType /= InstanceService[instanceId]

\* history of a deployment request: whether a record of the caller that it names
\* is for another service than the caller's instance
MismatchRequested(userId, ids, instanceId) ==
    /\ FindInstance(instanceId, userId)
    /\ \E j \in DOMAIN ids :
          /\ ids[j] \in StoredIds
          /\ cfs[ids[j]].userId = userId
          /\ cfs[ids[j]].serviceType /= InstanceService[instanceId]

\* history: the instance is found for the caller, and the ids named are distinct
\* records of the caller that are not soft-deleted
AllFound(userId, ids, instanceId) ==
    /\ FindInstance(instanceId, userId)
    /\ \A j \in DOMAIN ids : FindOwned(ids[j], userId)
    /\ \A j, k \in DOMAIN ids : ids[j] = ids[k] => j = k

\* history: an id named is not stored, is another user's or is soft-deleted
SomeMissing(userId, ids) == \E j \in DOMAIN ids : ~FindOwned(ids[j], userId)

\* a reply sent before the loop; calls counts the remote calls made so far
Rejected(status, error, ids, instanceId, calls, wanted, found, missing) ==
    [op |-> "deploy", pc |-> "rejected", status |-> status, error |-> error,
     ids |-> ids, instanceId |-> instanceId, calls |-> calls, wrote |-> {},
     mismatchRequested |-> wanted, allFound |-> found, someMissing |-> missing]

\* validation and the three guards: the instance, the records, the service types.
\* The instance table does not change here, so its lookup and the findMany that
\* follows it are taken as one step.
DeployStart(userId, ids, instanceId) ==
    /\ Free
    /\ Receive
    /\ LET personalCFs == FindMany(ids, userId)
           reject(status, error) ==
               /\ resp' = Rejected(status, error, ids, instanceId, 0,
                                    MismatchRequested(userId, ids, instanceId),
                                    AllFound(userId, ids, instanceId),
                                    SomeMissing(userId, ids))
               /\ UNCHANGED req
       IN IF ids = <<>>
          THEN reject(400, "VALIDATION_ERROR")
          ELSE IF ~FindInstance(instanceId, userId)
          THEN reject(404, "NOT_FOUND")
          ELSE IF Len(personalCFs) /= Len(ids)
          THEN reject(404, "SOME_CFS_NOT_FOUND")
          ELSE IF Mismatch(personalCFs, instanceId)
          THEN reject(400, "SERVICE_MISMATCH")
          ELSE /\ req' = Add(
                           [op |-> "deploy", pc |-> "list", status |-> 0, error |-> "",
                            userId |-> userId, ids |-> ids, instanceId |-> instanceId,
                            personalCFs |-> personalCFs, existingByName |-> <<>>,
                            k |-> 1, created |-> <<>>, updated |-> <<>>, failed |-> <<>>,
                            instanceCFId |-> 0,
                            calls |-> 0, threw |-> {}, wrote |-> {}, after |-> {},
                            again |-> {personalCFs[j].id : j \in
                                        {x \in DOMAIN personalCFs :
                                            <<instanceId, personalCFs[x].id>> \in deployed}},
                            mismatchRequested |-> MismatchRequested(userId, ids, instanceId),
                            allFound |-> AllFound(userId, ids, instanceId),
                            someMissing |-> SomeMissing(userId, ids),
                            lists |-> 0, index |-> <<>>])
               /\ UNCHANGED resp
    /\ UNCHANGED <<cfs, ledger, nextDepId, remote, deployed>>

EmptyIndex(existingFormats) == <<>>

FirstByName(existingFormats) ==
    [n \in {existingFormats[i].name : i \in DOMAIN existingFormats} |->
        LET first == CHOOSE i \in DOMAIN existingFormats :
                         /\ existingFormats[i].name = n
                         /\ \A j \in DOMAIN existingFormats :
                               existingFormats[j].name = n => i <= j
        IN existingFormats[first]]

\* new Map(existingFormats.map((cf) => [cf.name, cf])): the last of a name wins
ExistingByName(existingFormats) ==
    [n \in {existingFormats[i].name : i \in DOMAIN existingFormats} |->
        LET last == CHOOSE i \in DOMAIN existingFormats :
                        /\ existingFormats[i].name = n
                        /\ \A j \in DOMAIN existingFormats :
                              existingFormats[j].name = n => j <= i
        IN existingFormats[last]]

\* arrClient.getCustomFormats(), once for the batch; a throw reaches the outer catch
DeployList(r, ok) ==
    /\ r.op = "deploy" /\ r.pc = "list"
    /\ IF ok
       THEN /\ req' = Swap(r,
                        [r EXCEPT !.pc = "item", !.calls = @ + 1, !.lists = @ + 1,
                                  !.existingByName = ExistingByName(remote[r.instanceId]),
                                  !.index = ExistingByName(remote[r.instanceId])])
            /\ UNCHANGED resp
       ELSE /\ resp' = Rejected(500, "DEPLOYMENT_FAILED", r.ids, r.instanceId, 1,
                                 r.mismatchRequested, r.allFound, r.someMissing)
            /\ req' = Drop(r)
    /\ UNCHANGED <<cfs, ledger, nextDepId, remote, deployed, now>>

Always200(failed) == 200

\* const success = results.failed.length === 0: 200 when nothing failed, 400 otherwise
ReplyStatus(failed) == IF failed = <<>> THEN 200 ELSE 400

\* the reply after the loop, with the three lists
Reply(r) ==
    [r EXCEPT !.pc = "done", !.status = ReplyStatus(r.failed)]

StopAtFailure(r0, r) ==
    IF r.k < Len(r.personalCFs) /\ r.failed = <<>>
    THEN /\ req' = Swap(r0, [r EXCEPT !.k = @ + 1, !.pc = "item"])
         /\ UNCHANGED resp
    ELSE /\ resp' = Reply(r)
         /\ req' = Drop(r0)

\* the end of one iteration: the next record, or the reply
Continue(r0, r) ==
    IF r.k < Len(r.personalCFs)
    THEN /\ req' = Swap(r0, [r EXCEPT !.k = @ + 1, !.pc = "item"])
         /\ UNCHANGED resp
    ELSE /\ resp' = Reply(r)
         /\ req' = Drop(r0)

DropFailure(failed, name) == failed

\* results.failed.push({name, error}) of the per-item catch
PushFailed(failed, name) == Append(failed, name)

\* the payload of a record: its name, flag and specifications
Payload(cf) ==
    [name |-> cf.name,
     includeCustomFormatWhenRenaming |-> cf.includeCustomFormatWhenRenaming,
     specifications |-> cf.specifications]

\* the remote list after updateCustomFormat(id, payload)
RemoteUpdated(list, id, cf) ==
    [i \in DOMAIN list |->
        IF list[i].id = id
        THEN [id |-> id, name |-> cf.name,
              includeCustomFormatWhenRenaming |-> cf.includeCustomFormatWhenRenaming,
              specifications |-> cf.specifications]
        ELSE list[i]]

\* the remote list after createCustomFormat(payload): the service numbers the new object
RemoteCreated(list, cf) ==
    Append(list, [id |-> Len(list) + 1, name |-> cf.name,
                  includeCustomFormatWhenRenaming |-> cf.includeCustomFormatWhenRenaming,
                  specifications |-> cf.specifications])

Relisted(index, list) == ExistingByName(list)

\* existingByName.get(personalCF.name) reads the map built before the loop: the
\* remote call of an iteration leaves the map as it is
IndexAfterCall(index, list) == index

\* one iteration up to the remote call: update when the name is in the index, else
\* create; a throw goes to the per-item catch
DeployItem(r, ok) ==
    LET cf == r.personalCFs[r.k]
        known == cf.name \in DOMAIN r.existingByName
        list == remote[r.instanceId]
    IN
    /\ r.op = "deploy" /\ r.pc = "item"
    /\ IF ~ok
       THEN /\ Continue(r, [r EXCEPT !.calls = @ + 1, !.threw = @ \cup {cf.id},
                                     !.failed = PushFailed(@, cf.name)])
            /\ UNCHANGED remote
       ELSE /\ IF known
               THEN /\ remote' = [remote EXCEPT ![r.instanceId] =
                                    RemoteUpdated(list, r.existingByName[cf.name].id, cf)]
                    /\ req' = Swap(r,
                                [r EXCEPT !.pc = "upsert", !.calls = @ + 1,
                                          !.instanceCFId = r.existingByName[cf.name].id,
                                          !.existingByName =
                                              IndexAfterCall(@, remote'[r.instanceId]),
                                          !.updated = Append(@, cf.name)])
               ELSE /\ remote' = [remote EXCEPT ![r.instanceId] = RemoteCreated(list, cf)]
                    /\ req' = Swap(r,
                                [r EXCEPT !.pc = "upsert", !.calls = @ + 1,
                                          !.instanceCFId = Len(list) + 1,
                                          !.existingByName =
                                              IndexAfterCall(@, remote'[r.instanceId]),
                                          !.created = Append(@, cf.name)])
            /\ UNCHANGED resp
    /\ UNCHANGED <<cfs, ledger, nextDepId, deployed, now>>

\* the rows of one (instance, record) pair
Entries(led, instanceId, personalCFId) ==
    {e \in led : e.instanceId = instanceId /\ e.personalCFId = personalCFId}

KeepDeployedVersion(led, id, userId, instanceId, cf, instanceCFId, at) ==
    IF Entries(led, instanceId, cf.id) /= {}
    THEN {IF e.instanceId = instanceId /\ e.personalCFId = cf.id
          THEN [e EXCEPT !.instanceCFId = instanceCFId, !.deployedAt = at]
          ELSE e : e \in led}
    ELSE led \cup {[id |-> id, userId |-> userId, personalCFId |-> cf.id,
                    instanceId |-> instanceId, instanceCFId |-> instanceCFId,
                    deployedVersion |-> cf.version,
                    deployedSpecsSnapshot |-> cf.specifications, deployedAt |-> at]}

ReplaceRow(led, id, userId, instanceId, cf, instanceCFId, at) ==
    (led \ Entries(led, instanceId, cf.id))
        \cup {[id |-> id, userId |-> userId, personalCFId |-> cf.id,
                instanceId |-> instanceId, instanceCFId |-> instanceCFId,
                deployedVersion |-> cf.version,
                deployedSpecsSnapshot |-> cf.specifications, deployedAt |-> at]}

AlwaysInsert(led, id, userId, instanceId, cf, instanceCFId, at) ==
    led \cup {[id |-> id, userId |-> userId, personalCFId |-> cf.id,
               instanceId |-> instanceId, instanceCFId |-> instanceCFId,
               deployedVersion |-> cf.version,
               deployedSpecsSnapshot |-> cf.specifications, deployedAt |-> at]}

VersionOnly(led, id, userId, instanceId, cf, instanceCFId, at) ==
    IF Entries(led, instanceId, cf.id) /= {}
    THEN {IF e.instanceId = instanceId /\ e.personalCFId = cf.id
          THEN [e EXCEPT !.instanceCFId = instanceCFId,
                         !.deployedVersion = cf.version,
                         !.deployedAt = at]
          ELSE e : e \in led}
    ELSE led \cup {[id |-> id, userId |-> userId, personalCFId |-> cf.id,
                    instanceId |-> instanceId, instanceCFId |-> instanceCFId,
                    deployedVersion |-> cf.version,
                    deployedSpecsSnapshot |-> cf.specifications, deployedAt |-> at]}

\* personalCFDeployment.upsert on the unique key (instanceId, personalCFId):
\* the row of the pair is overwritten, or a row with the new id is inserted
Upsert(led, id, userId, instanceId, cf, instanceCFId, at) ==
    IF Entries(led, instanceId, cf.id) /= {}
    THEN {IF e.instanceId = instanceId /\ e.personalCFId = cf.id
          THEN [e EXCEPT !.instanceCFId = instanceCFId,
                         !.deployedVersion = cf.version,
                         !.deployedSpecsSnapshot = cf.specifications,
                         !.deployedAt = at]
          ELSE e : e \in led}
    ELSE led \cup {[id |-> id, userId |-> userId, personalCFId |-> cf.id,
                    instanceId |-> instanceId, instanceCFId |-> instanceCFId,
                    deployedVersion |-> cf.version,
                    deployedSpecsSnapshot |-> cf.specifications, deployedAt |-> at]}

\* history: what the ledger holds for the pair once the iteration is over
After(led, instanceId, cf, ok) ==
    [id |-> cf.id, ok |-> ok, n |-> Cardinality(Entries(led, instanceId, cf.id)),
     versions |-> {e.deployedVersion : e \in Entries(led, instanceId, cf.id)}]

\* the ledger write of one iteration; a throw goes to the per-item catch
DeployUpsert(r, ok) ==
    LET cf == r.personalCFs[r.k]
        led == Upsert(ledger, nextDepId + 1, r.userId, r.instanceId, cf, r.instanceCFId, now)
    IN
    /\ r.op = "deploy" /\ r.pc = "upsert"
    /\ IF ok
       THEN /\ ledger' = led
            /\ nextDepId' = IF Entries(ledger, r.instanceId, cf.id) = {}
                            THEN nextDepId + 1 ELSE nextDepId
            /\ Continue(r, [r EXCEPT !.wrote = @ \cup {cf.id},
                                     !.after = @ \cup {After(led, r.instanceId, cf, TRUE)}])
       ELSE /\ UNCHANGED <<ledger, nextDepId>>
            /\ Continue(r, [r EXCEPT !.failed = PushFailed(@, cf.name),
                                     !.after = @ \cup {After(ledger, r.instanceId, cf, FALSE)}])
    /\ deployed' = deployed \cup {<<r.instanceId, cf.id>>}
    /\ UNCHANGED <<cfs, remote, now>>

\* ------------------------------------------------------------ GET /deployments

\* needsUpdate: d.personalCF.version > d.deployedVersion
NeedsUpdateOrEqual(currentVersion, deployedVersion) == currentVersion >= deployedVersion

NeedsUpdate(currentVersion, deployedVersion) == currentVersion > deployedVersion

\* one row of the reply
Formatted(d) ==
    [id |-> d.id, personalCFId |-> d.personalCFId,
     personalCFName |-> cfs[d.personalCFId].name, instanceId |-> d.instanceId,
     instanceCFId |-> d.instanceCFId, deployedVersion |-> d.deployedVersion,
     currentVersion |-> cfs[d.personalCFId].version,
     needsUpdate |-> NeedsUpdate(cfs[d.personalCFId].version, d.deployedVersion),
     deployedAt |-> d.deployedAt]

\* personalCFDeployment.findMany({where: {userId, instanceId?}})
Deployments(userId, instanceId) ==
    {d \in ledger : d.userId = userId /\ (instanceId /= Undef => d.instanceId = instanceId)}

\* the whole handler: one query, then the mapping
ListDeployments(userId, instanceId) ==
    /\ Receive
    /\ resp' = [op |-> "list", status |-> 200, error |-> "", at |-> now',
                userId |-> userId, instanceId |-> instanceId,
                deployments |-> {Formatted(d) : d \in Deployments(userId, instanceId)}]
    /\ UNCHANGED <<cfs, ledger, nextDepId, remote, deployed, req>>

\* ------------------------------------------------------------ GET /updates

AnyService(serviceType, d) == TRUE

\* if (serviceType && d.personalCF.serviceType !== serviceType) return false
ServiceMatches(serviceType, d) ==
    serviceType /= Undef => cfs[d.personalCFId].serviceType = serviceType

\* one row of the reply
UpdateRow(d) ==
    [deploymentId |-> d.id, personalCFId |-> d.personalCFId,
     personalCFName |-> cfs[d.personalCFId].name, instanceId |-> d.instanceId,
     serviceType |-> cfs[d.personalCFId].serviceType,
     deployedVersion |-> d.deployedVersion,
     currentVersion |-> cfs[d.personalCFId].version]

\* deployments.filter(...).map(...)
Updates(userId, instanceId, serviceType) ==
    {UpdateRow(d) : d \in {x \in Deployments(userId, instanceId) :
                              /\ ServiceMatches(serviceType, x)
                              /\ cfs[x.personalCFId].version > x.deployedVersion}}

\* the whole handler: one query, then the filter and the mapping
ListUpdates(userId, instanceId, serviceType) ==
    /\ Receive
    /\ resp' = [op |-> "updates", status |-> 200, error |-> "",
                hasUpdates |-> Updates(userId, instanceId, serviceType) /= {},
                updates |-> Updates(userId, instanceId, serviceType),
                totalDeployed |-> Cardinality(Deployments(userId, instanceId)),
                outdatedCount |->
                    Cardinality(Updates(userId, instanceId, serviceType))]
    /\ UNCHANGED <<cfs, ledger, nextDepId, remote, deployed, req>>

\* ------------------------------------------------------------ DELETE /deployments/:id

\* the ownership check (findFirst)
StopFind(userId, id) ==
    /\ Free
    /\ Receive
    /\ IF ~\E d \in ledger : d.id = id /\ d.userId = userId
       THEN /\ resp' = [op |-> "stop", status |-> 404, error |-> "NOT_FOUND"]
            /\ UNCHANGED req
       ELSE /\ req' = Add(
                        [op |-> "stop", pc |-> "delete", userId |-> userId, id |-> id])
            /\ UNCHANGED resp
    /\ UNCHANGED <<cfs, ledger, nextDepId, remote, deployed>>

DeleteAll(led, id) == {}

\* the table after personalCFDeployment.delete({where: {id}})
DeleteWhere(led, id) == {d \in led : d.id /= id}

\* personalCFDeployment.delete({where: {id}}): throws when the row is gone
StopDelete(r) ==
    /\ r.op = "stop" /\ r.pc = "delete"
    /\ IF \E d \in ledger : d.id = r.id
       THEN /\ ledger' = DeleteWhere(ledger, r.id)
            /\ resp' = [op |-> "stop", status |-> 200, error |-> "", id |-> r.id]
       ELSE /\ UNCHANGED ledger
            /\ resp' = [op |-> "stop", status |-> 500, error |-> "DELETE_FAILED"]
    /\ req' = Drop(r)
    /\ UNCHANGED <<cfs, nextDepId, remote, deployed, now>>

\* ------------------------------------------------------------ specifications

Init ==
    /\ cfs = <<>>
    /\ ledger = {}
    /\ nextDepId = 0
    /\ remote = [i \in Instances |-> <<>>]
    /\ deployed = {}
    /\ req = EmptyBag
    /\ resp = NoReply
    /\ now = 0

CrudNext ==
        \/ \E c \in Creators, n \in Names \cup {EmptyName}, sp \in {"s1", EmptySpecs} :
                PostFind(c[1], n, c[2], "undef", sp)
        \/ \E r \in InFlight : PostCreate(r)
        \/ \E u \in Users, id \in CFIds, p \in Patches :
                PutFind(u, id, p[1], p[2], p[3])
        \/ \E r \in InFlight : PutDup(r)
        \/ \E r \in InFlight : PutWrite(r)
        \/ \E u \in Users, id \in CFIds : DeleteFind(u, id)
        \/ \E r \in InFlight : DeleteWrite(r)

SpecCrud == Init /\ [][CrudNext]_vars

\* Four records as four creates leave them: two of u1 for RADARR, one of u1 for
\* SONARR, one of u2 for RADARR.
SeedCF(userId, name, serviceType) ==
    NewCF([userId |-> userId, name |-> name, serviceType |-> serviceType,
           flag |-> "undef", specs |-> "s1"])

SeedCFs ==
    <<SeedCF("u1", "A", "RADARR"), SeedCF("u1", "B", "RADARR"),
      SeedCF("u1", "A", "SONARR"), SeedCF("u2", "A", "RADARR")>>

\* The deployment requests, <<userId, personalCFIds, instanceId>>: one and two
\* records of the instance's service, a record of the other service beside one of
\* the instance's, a record of another user, an id twice, an id that is not stored,
\* no id, an instance that is not stored, an instance of another user. findMany
\* returns the same rows for the ids in any order, so the lists are ascending.
DeployRequests ==
    {<<"u1", <<1>>, "i1">>, <<"u1", <<1, 2>>, "i1">>, <<"u1", <<1, 3>>, "i1">>,
     <<"u1", <<1, 4>>, "i1">>, <<"u1", <<1, 1>>, "i2">>, <<"u1", <<3, 5>>, "i1">>,
     <<"u1", <<>>, "i1">>, <<"u1", <<1>>, NoInstance>>, <<"u2", <<1>>, "i1">>}

DeployInit ==
    /\ cfs = SeedCFs
    /\ ledger = {}
    /\ nextDepId = 0
    /\ remote = [i \in Instances |-> <<>>]
    /\ deployed = {}
    /\ req = EmptyBag
    /\ resp = NoReply
    /\ now = 0

DeployNext ==
        \/ \E d \in DeployRequests : DeployStart(d[1], d[2], d[3])
        \/ \E r \in InFlight, ok \in BOOLEAN : DeployList(r, ok)
        \/ \E r \in InFlight, ok \in BOOLEAN : DeployItem(r, ok)
        \/ \E r \in InFlight, ok \in BOOLEAN : DeployUpsert(r, ok)
        \/ \E u \in Users, id \in 1..(nextDepId + 1) : StopFind(u, id)
        \/ \E r \in InFlight : StopDelete(r)
        \/ PutFind("u1", 1, Undef, "undef", "s2")
        \/ \E r \in InFlight : PutWrite(r)
        \/ \E i \in {Undef, "i1"} : ListDeployments("u1", i)

SpecDeploy == DeployInit /\ [][DeployNext]_vars

\* The state two deployments leave: record 3 of u1 on i2 and record 4 of u2 on
\* i3, each with its object on the instance and its ledger row.
SeedObject(i) ==
    [id |-> 1, name |-> SeedCFs[i].name,
     includeCustomFormatWhenRenaming |-> SeedCFs[i].includeCustomFormatWhenRenaming,
     specifications |-> SeedCFs[i].specifications]

SeedRow(id, personalCFId, instanceId) ==
    [id |-> id, userId |-> SeedCFs[personalCFId].userId, personalCFId |-> personalCFId,
     instanceId |-> instanceId, instanceCFId |-> 1,
     deployedVersion |-> SeedCFs[personalCFId].version,
     deployedSpecsSnapshot |-> SeedCFs[personalCFId].specifications, deployedAt |-> 0]

LifeInit ==
    /\ cfs = SeedCFs
    /\ ledger = {SeedRow(1, 3, "i2"), SeedRow(2, 4, "i3")}
    /\ nextDepId = 2
    /\ remote = [i \in Instances |->
                    IF i = "i2" THEN <<SeedObject(3)>>
                    ELSE IF i = "i3" THEN <<SeedObject(4)>> ELSE <<>>]
    /\ deployed = {<<"i2", 3>>, <<"i3", 4>>}
    /\ req = EmptyBag
    /\ resp = NoReply
    /\ now = 0

\* Edits, soft deletion, deployments, stopTracking and listUpdates of u1, over
\* record 1 on i1 and the seeded pairs.
LifePatches == {<<"undef", "undef", "s2">>, <<"undef", "undef", "s3">>,
                <<"undef", "true", "undef">>}

LifeNext ==
        \/ DeployStart("u1", <<1>>, "i1")
        \/ \E r \in InFlight, ok \in BOOLEAN : DeployList(r, ok)
        \/ \E r \in InFlight, ok \in BOOLEAN : DeployItem(r, ok)
        \/ \E r \in InFlight, ok \in BOOLEAN : DeployUpsert(r, ok)
        \/ \E p \in LifePatches : PutFind("u1", 1, p[1], p[2], p[3])
        \/ \E r \in InFlight : PutWrite(r)
        \/ DeleteFind("u1", 1)
        \/ \E r \in InFlight : DeleteWrite(r)
        \/ \E id \in 1..nextDepId : StopFind("u1", id)
        \/ \E r \in InFlight : StopDelete(r)
        \/ \E i \in {Undef, "i1"}, st \in {Undef, "SONARR"} :
                ListUpdates("u1", i, st)

SpecLife == LifeInit /\ [][LifeNext]_vars

\* Requests of u1 for what is u1's, what is u2's, what is soft-deleted and what
\* is not stored: records 1..5, ledger rows 1..3, instances i1, i3 and i0.
AccessRequests ==
    {<<"u1", <<1>>, "i1">>, <<"u1", <<1>>, "i3">>, <<"u1", <<1>>, NoInstance>>}

AccessNext ==
        \/ \E id \in CFIds : GetCF("u1", id)
        \/ \E id \in CFIds : PutFind("u1", id, Undef, "true", Undef)
        \/ \E r \in InFlight : PutWrite(r)
        \/ \E id \in CFIds : DeleteFind("u1", id)
        \/ \E r \in InFlight : DeleteWrite(r)
        \/ \E id \in 1..(nextDepId + 1) : StopFind("u1", id)
        \/ \E r \in InFlight : StopDelete(r)
        \/ \E d \in AccessRequests : DeployStart(d[1], d[2], d[3])
        \/ \E r \in InFlight, ok \in BOOLEAN : DeployList(r, ok)
        \/ \E r \in InFlight, ok \in BOOLEAN : DeployItem(r, ok)
        \/ \E r \in InFlight, ok \in BOOLEAN : DeployUpsert(r, ok)

SpecAccess == LifeInit /\ [][AccessNext]_vars

\* Requests served one after the other: a request arrives when none is in flight.
\* A record is deployed, edited and deployed again, alone or with a second record.
Idle == req = EmptyBag

RedeployRequests == {<<"u1", <<1>>, "i1">>, <<"u1", <<1, 2>>, "i1">>}

RedeployNext ==
        \/ Idle /\ \E d \in RedeployRequests : DeployStart(d[1], d[2], d[3])
        \/ \E r \in InFlight, ok \in BOOLEAN : DeployList(r, ok)
        \/ \E r \in InFlight, ok \in BOOLEAN : DeployItem(r, ok)
        \/ \E r \in InFlight, ok \in BOOLEAN : DeployUpsert(r, ok)
        \/ Idle /\ \E sp \in {"s2"} : PutFind("u1", 1, Undef, "undef", sp)
        \/ \E r \in InFlight : PutWrite(r)

SpecRedeploy == DeployInit /\ [][RedeployNext]_vars

\* Batches of u1 for i1 that overlap, two at a time: the
\* remote service takes every create it does not refuse, so that two batches that
\* listed before either created leave two objects of one name.
BatchNext ==
        \/ \E d \in RedeployRequests : DeployStart(d[1], d[2], d[3])
        \/ \E r \in InFlight, ok \in BOOLEAN : DeployList(r, ok)
        \/ \E r \in InFlight, ok \in BOOLEAN : DeployItem(r, ok)
        \/ \E r \in InFlight, ok \in BOOLEAN : DeployUpsert(r, ok)

SpecBatch == DeployInit /\ [][BatchNext]_vars

\* A batch of two records that batches of one record overlap, every call of which
\* returns or throws in the end: a handler suspended at an await is resumed.
LoopNext ==
        \/ Idle /\ DeployStart("u1", <<1, 2>>, "i1")
        \/ DeployStart("u1", <<1>>, "i1")
        \/ \E r \in InFlight, ok \in BOOLEAN : DeployList(r, ok)
        \/ \E r \in InFlight, ok \in BOOLEAN : DeployItem(r, ok)
        \/ \E r \in InFlight, ok \in BOOLEAN : DeployUpsert(r, ok)

SpecLoop ==
    /\ DeployInit
    /\ [][LoopNext]_vars
    /\ WF_vars(\E r \in InFlight, ok \in BOOLEAN :
                    DeployList(r, ok) \/ DeployItem(r, ok) \/ DeployUpsert(r, ok))

\* Batches of records 1 and 2 for i1 and edits of the specifications of record
\* 1, overlapping two at a time.
EditNext ==
        \/ DeployStart("u1", <<1, 2>>, "i1")
        \/ \E r \in InFlight, ok \in BOOLEAN : DeployList(r, ok)
        \/ \E r \in InFlight, ok \in BOOLEAN : DeployItem(r, ok)
        \/ \E r \in InFlight, ok \in BOOLEAN : DeployUpsert(r, ok)
        \/ PutFind("u1", 1, Undef, "undef", "s2")
        \/ \E r \in InFlight : PutWrite(r)

SpecEdit == DeployInit /\ [][EditNext]_vars

\* Updates of record 1 of u1 that all submit specifications, overlapping two at a
\* time: every request received is such an update, and each is answered by 200.
PutsNext ==
        \/ \E sp \in SpecVals, fl \in Flags : PutFind("u1", 1, Undef, fl, sp)
        \/ \E r \in InFlight : PutWrite(r)

SpecPuts == DeployInit /\ [][PutsNext]_vars

\* Record 3 of u1, deployed to i2, is deployed again by batches that overlap, with
\* edits of its specifications between them; every remote and storage call
\* returns.
RaceNext ==
        \/ DeployStart("u1", <<3>>, "i2")
        \/ \E r \in InFlight : DeployList(r, TRUE)
        \/ \E r \in InFlight : DeployItem(r, TRUE)
        \/ \E r \in InFlight : DeployUpsert(r, TRUE)
        \/ \E sp \in {"s2", "s3"} : PutFind("u1", 3, Undef, "undef", sp)
        \/ \E r \in InFlight : PutWrite(r)

SpecRace == LifeInit /\ [][RaceNext]_vars

\* Deployments of both users, to their own instances and to the other's, of their
\* own records and of the other's, with renames, edits and soft deletions of the
\* records; every remote and storage call returns.
OwnerRequests ==
    DeployRequests \cup AccessRequests \cup {<<"u2", <<4>>, "i3">>}

OwnerNext ==
        \/ \E d \in OwnerRequests : DeployStart(d[1], d[2], d[3])
        \/ \E r \in InFlight : DeployList(r, TRUE)
        \/ \E r \in InFlight : DeployItem(r, TRUE)
        \/ \E r \in InFlight : DeployUpsert(r, TRUE)
        \/ \E u \in Users, id \in {1, 4}, p \in {<<"B", "undef", "undef">>,
                                                 <<"undef", "undef", "s2">>} :
                PutFind(u, id, p[1], p[2], p[3])
        \/ \E r \in InFlight : PutDup(r)
        \/ \E r \in InFlight : PutWrite(r)
        \/ \E u \in Users : DeleteFind(u, 1)
        \/ \E r \in InFlight : DeleteWrite(r)

SpecOwner == DeployInit /\ [][OwnerNext]_vars

\* Requests served one after the other: record 1 is deployed, alone or with
\* record 2, renamed to a name no record has or to the name of record 2, and
\* deployed again.
RenameNext ==
        \/ Idle /\ \E d \in RedeployRequests : DeployStart(d[1], d[2], d[3])
        \/ \E r \in InFlight, ok \in BOOLEAN : DeployList(r, ok)
        \/ \E r \in InFlight, ok \in BOOLEAN : DeployItem(r, ok)
        \/ \E r \in InFlight, ok \in BOOLEAN : DeployUpsert(r, ok)
        \/ Idle /\ \E n \in {"B", "C"} : PutFind("u1", 1, n, "undef", Undef)
        \/ \E r \in InFlight : PutDup(r)
        \/ \E r \in InFlight : PutWrite(r)

SpecRename == DeployInit /\ [][RenameNext]_vars

\* Creates, updates and soft deletions over the seeded records and their ledger
\* rows: u1 creates under a used name, a new name or no name; either user
\* updates record 1 with a rename to the name of record 2 together with new
\* specifications, with new specifications alone, or with empty specifications;
\* u1 soft-deletes record 2 or record 3.
RejectPatches == {<<"B", "undef", "s2">>, <<"undef", "undef", "s2">>,
                  <<"undef", "undef", "[]">>}

RejectNext ==
        \/ \E n \in {"A", "C", EmptyName} : PostFind("u1", n, "RADARR", "undef", "s1")
        \/ \E r \in InFlight : PostCreate(r)
        \/ \E u \in Users, p \in RejectPatches : PutFind(u, 1, p[1], p[2], p[3])
        \/ \E r \in InFlight : PutDup(r)
        \/ \E r \in InFlight : PutWrite(r)
        \/ \E id \in {2, 3} : DeleteFind("u1", id)
        \/ \E r \in InFlight : DeleteWrite(r)

SpecReject == LifeInit /\ [][RejectNext]_vars

\* ------------------------------------------------------------ properties

\* the deployment batches that passed the guards: those in flight and the one replied to
Batches ==
    {r \in InFlight : r.op = "deploy"}
        \cup (IF resp.op = "deploy" /\ resp.pc = "done" THEN {resp} ELSE {})

\* the version of a record as the batch read it
ReadVersion(b, id) ==
    LET j == CHOOSE x \in DOMAIN b.personalCFs : b.personalCFs[x].id = id
    IN b.personalCFs[j].version

Count(seq, x) == Cardinality({i \in DOMAIN seq : seq[i] = x})

\* C1: a successful update of a non-deleted record that submits specifications
\* leaves the record's version at its version before the update plus exactly 1.
C1_SpecsUpdateAddsOne ==
    (resp.op = "put" /\ resp.status = 200 /\ resp.specs /= Undef
        /\ resp.before.deletedAt = 0)
    => resp.customFormat.version = resp.before.version + 1

\* C2: a successful update that omits specifications leaves the record's version
\* and specifications as they were before the update.
C2_OmittedSpecsKeepVersion ==
    (resp.op = "put" /\ resp.status = 200 /\ resp.specs = Undef)
    => /\ resp.customFormat.version = resp.before.version
       /\ resp.customFormat.specifications = resp.before.specifications

\* C8: a valid create is refused with Conflict when a non-deleted record has its
\* triple at the name check; a create made after the record of its triple was
\* soft-deleted, with no non-deleted record of the triple at the name check or
\* at the write, succeeds with version 1.
C8_CreateAfterSoftDelete ==
    (resp.op = "post" /\ resp.status \in {201, 500} /\ resp.afterSoftDelete)
    => \/ resp.status = 201 /\ resp.customFormat.version = 1
       \/ resp.status = 500 /\ resp.liveDuplicate

\* C9: in every reachable state no two non-deleted records share
\* (owner, name, service-kind), whatever the interleaving of the name checks and
\* the writes of concurrent creates and renames.
C9_NoTwoLiveSameTriple ==
    \A i, j \in StoredIds :
        (i /= j /\ cfs[i].deletedAt = 0 /\ cfs[j].deletedAt = 0)
        => <<cfs[i].userId, cfs[i].name, cfs[i].serviceType>>
              /= <<cfs[j].userId, cfs[j].name, cfs[j].serviceType>>

\* C9 witness: a create that passed its name check was stopped at the write,
\* because a concurrent request had taken the triple.
C9_RaceStoppedAtWrite ==
    resp.op = "post" /\ resp.status = 500 /\ resp.liveDuplicate

\* C10: no step lowers the version of a record, and every version is at least 1.
C10_VersionNeverDecreases ==
    [][\A i \in DOMAIN cfs :
          cfs'[i].version >= cfs[i].version /\ cfs'[i].version >= 1]_vars

\* C3 as stated: when a pair that has been deployed before (its remote call
\* succeeded) is deployed again and the remote call succeeds again, the ledger
\* holds exactly one entry for the pair and its deployedVersion is the version
\* the second deployment read.
C3_TwiceOneEntry ==
    \A b \in Batches : \A a \in b.after :
        a.id \in b.again
        => a.n = 1 /\ a.versions = {ReadVersion(b, a.id)}

\* C3: the same, for a second deployment whose ledger write succeeds.
C3_TwiceOneEntryWhenLedgered ==
    \A b \in Batches : \A a \in b.after :
        (a.id \in b.again /\ a.ok)
        => a.n = 1 /\ a.versions = {ReadVersion(b, a.id)}

\* C3 witness: a second deployment of a pair, made after the record went to
\* version 2, has written the ledger.
C3_SecondDeploymentOfNewVersion ==
    \E b \in Batches : \E a \in b.after :
        a.id \in b.again /\ a.ok /\ ReadVersion(b, a.id) = 2 /\ a.versions = {2}

\* C4: in every reachable state the ledger holds at most one entry per
\* (instance, record) pair.
C4_OneEntryPerPair ==
    \A d, e \in ledger :
        (d.instanceId = e.instanceId /\ d.personalCFId = e.personalCFId) => d = e

\* C4 witness: two batches in flight at once have both written the ledger for
\* the same pair, which has one entry.
C4_ConcurrentBatchesWroteOnePair ==
    \E b, c \in InFlight :
        /\ b /= c /\ b.op = "deploy" /\ c.op = "deploy"
        /\ b.instanceId = c.instanceId
        /\ b.wrote \cap c.wrote /= {}
        /\ \A id \in b.wrote \cap c.wrote :
              Cardinality(Entries(ledger, b.instanceId, id)) = 1

\* C5: the step that answers listDeployments reports, for every ledger entry of
\* the caller it lists, needsUpdate = true when the record is one version above
\* the entry's deployedVersion and needsUpdate = false when the record's version
\* equals the entry's deployedVersion.
C5_DriftReported ==
    [][(now' /= now /\ resp'.op = "list" /\ resp'.at = now')
       => \A e \in ledger' :
            (e.userId = resp'.userId
                /\ (resp'.instanceId /= Undef => e.instanceId = resp'.instanceId))
            => \E d \in resp'.deployments :
                  /\ d.id = e.id
                  /\ d.deployedVersion = e.deployedVersion
                  /\ cfs'[e.personalCFId].version = e.deployedVersion + 1
                        => d.needsUpdate
                  /\ cfs'[e.personalCFId].version = e.deployedVersion
                        => ~d.needsUpdate]_vars

\* C5 witness: a list reply with one entry whose record was bumped by one since
\* its deployment, reported with needsUpdate, beside an entry still at its
\* deployed version, reported without.
C5_OneDriftedOneCurrent ==
    /\ resp.op = "list"
    /\ \E d, e \in resp.deployments :
          /\ d.currentVersion = d.deployedVersion + 1 /\ d.needsUpdate
          /\ e.currentVersion = e.deployedVersion /\ ~e.needsUpdate

\* C6: in the reply of a batch that passed the guards, every record whose remote
\* call threw has exactly one entry in failed, is in neither created nor updated
\* and has no ledger write of the batch; every other record is exactly once in
\* created or updated; and the ledger rows the batch wrote were in the ledger
\* when their iteration ended, whatever happened to the records after them.
C6_PartialFailure ==
    (resp.op = "deploy" /\ resp.pc = "done") =>
        \A j \in DOMAIN resp.personalCFs :
            LET cf == resp.personalCFs[j]
            IN /\ cf.id \in resp.threw
                    => /\ Count(resp.failed, cf.name) = 1
                       /\ Count(resp.created \o resp.updated, cf.name) = 0
                       /\ cf.id \notin resp.wrote
                       /\ \A a \in resp.after : a.id /= cf.id
               /\ cf.id \notin resp.threw
                    => /\ Count(resp.created \o resp.updated, cf.name) = 1
                       /\ \E a \in resp.after : a.id = cf.id
               /\ cf.id \in resp.wrote
                    => \E a \in resp.after : a.id = cf.id /\ a.ok /\ a.n = 1

\* C6 witness: a batch of two whose first record was deployed and ledgered and
\* whose second record's remote call threw.
C6_SuccessThenThrow ==
    /\ resp.op = "deploy" /\ resp.pc = "done"
    /\ Len(resp.personalCFs) = 2
    /\ resp.personalCFs[1].id \in resp.wrote
    /\ resp.personalCFs[2].id \in resp.threw
    /\ Len(resp.failed) = 1
    /\ Entries(ledger, resp.instanceId, resp.personalCFs[1].id) /= {}

\* C7 as stated: a deployment request that names a record of another service
\* than the instance's is answered with ServiceMismatch, with no remote call and
\* no ledger write.
C7_MismatchRejected ==
    (resp.op = "deploy" /\ resp.mismatchRequested)
    => resp.error = "SERVICE_MISMATCH" /\ resp.calls = 0 /\ resp.wrote = {}

\* C7: the same, for a request whose instance is found and whose ids are
\* distinct records of the caller that are not soft-deleted.
C7_MismatchRejectedWhenFound ==
    (resp.op = "deploy" /\ resp.mismatchRequested /\ resp.allFound)
    => resp.error = "SERVICE_MISMATCH" /\ resp.calls = 0 /\ resp.wrote = {}

\* C7 witness: a ServiceMismatch reply to a request that also names a record of
\* the instance's service.
C7_MixedBatchRejected ==
    /\ resp.op = "deploy" /\ resp.error = "SERVICE_MISMATCH"
    /\ resp.calls = 0 /\ resp.wrote = {} /\ ledger = {}
    /\ \E j, k \in DOMAIN resp.ids :
          /\ cfs[resp.ids[j]].serviceType = InstanceService[resp.instanceId]
          /\ cfs[resp.ids[k]].serviceType /= InstanceService[resp.instanceId]

C14_NotFoundOnlyWhenMissing ==
    (resp.op = "deploy" /\ resp.error = "SOME_CFS_NOT_FOUND")
    => resp.someMissing /\ resp.calls = 0 /\ resp.wrote = {}

\* C16 as stated: a batch that passed the guards and had a remote call of an item
\* throw replies with status 200 and the three lists, failed not empty.
C16_PartialFailureIs200 ==
    (resp.op = "deploy" /\ resp.pc = "done" /\ resp.threw /= {})
    => resp.status = 200 /\ resp.failed /= <<>>

\* C16: every reply to a batch that reached the loop carries the three lists,
\* which account for every record of the batch; when a remote call of an item
\* threw, failed is not empty and the status is 400.
C16_PartialFailureIs400WithLists ==
    (resp.op = "deploy" /\ resp.calls >= 2)
    => /\ resp.pc = "done" /\ resp.error = ""
       /\ \A j \in DOMAIN resp.personalCFs :
             Count(resp.created \o resp.updated \o resp.failed,
                   resp.personalCFs[j].name) >= 1
       /\ resp.threw /= {} => resp.status = 400 /\ resp.failed /= <<>>
       /\ resp.failed = <<>> => resp.status = 200

\* C16 witness: the reply to a batch of two, one deployed and one whose remote
\* call threw.
C16_OneCreatedOneFailed ==
    /\ resp.op = "deploy" /\ resp.pc = "done" /\ resp.status = 400
    /\ Len(resp.created) = 1 /\ Len(resp.failed) = 1
    /\ Cardinality(resp.threw) = 1

\* C20: a batch that passed the guards has called the remote list exactly once
\* when it is past the list step and not at all before; before the list it has
\* made no create or update call; and the name index it uses is the one built
\* from that list, whatever calls have been made since.
C20_ListedOnce ==
    \A b \in Batches :
        /\ b.pc = "list" => b.lists = 0 /\ b.calls = 0 /\ b.created \o b.updated = <<>>
        /\ b.pc /= "list" => b.lists = 1 /\ b.existingByName = b.index

\* C20 witness: a batch of two has created its first object, so that the remote
\* list now holds a name its index does not, and goes on to its second record.
C20_IndexOlderThanRemote ==
    \E b \in Batches :
        /\ b.pc = "item" /\ b.k = 2 /\ Len(b.created) = 1
        /\ b.created[1] \notin DOMAIN b.existingByName
        /\ \E i \in DOMAIN remote[b.instanceId] :
              remote[b.instanceId][i].name = b.created[1]

C11_DriftImpliesNeedsUpdate ==
    \A e \in ledger :
        e.deployedSpecsSnapshot /= cfs[e.personalCFId].specifications
        => NeedsUpdate(cfs[e.personalCFId].version, e.deployedVersion)

\* C18: a step that takes a row out of the ledger is the delete of a stopTracking
\* for that row; a step that changes a row is a successful ledger write of a
\* deployment of the row's pair, and keeps the row's id; a step that puts in a
\* row with a new id is a successful ledger write of a deployment of its pair,
\* made when the pair has no row. Every other step leaves every row as it is.
C18_LedgerLifecycle ==
    [][/\ \A e \in ledger :
             \/ e \in ledger'
             \/ \E r \in InFlight : StopDelete(r) /\ r.id = e.id
             \/ \E r \in InFlight :
                   /\ DeployUpsert(r, TRUE)
                   /\ r.instanceId = e.instanceId
                   /\ r.personalCFs[r.k].id = e.personalCFId
                   /\ \E e2 \in ledger' : e2.id = e.id
       /\ \A e2 \in ledger' :
             (\A e \in ledger : e.id /= e2.id)
             => \E r \in InFlight :
                   /\ DeployUpsert(r, TRUE)
                   /\ r.instanceId = e2.instanceId
                   /\ r.personalCFs[r.k].id = e2.personalCFId
                   /\ Entries(ledger, e2.instanceId, e2.personalCFId) = {}]_vars

\* C18 witness: record 1 was deployed and then soft-deleted; its ledger row is
\* in place, as first written, beside the rows of the other pairs.
C18_RowOutlivesSoftDelete ==
    /\ cfs[1].deletedAt /= 0
    /\ \E e \in ledger :
          e.personalCFId = 1 /\ e.instanceId = "i1" /\ e.deployedVersion = 1
    /\ Cardinality(ledger) = 3

\* C19: the reply of listUpdates holds exactly the caller's ledger entries that
\* match the instance filter and the service filter and whose record's version
\* is above deployedVersion, and hasUpdates says whether there is one.
C19_UpdatesExact ==
    [][\A u \in Users, i \in Instances \cup {Undef}, st \in ServiceTypes \cup {Undef} :
          ListUpdates(u, i, st)
          => /\ {x.deploymentId : x \in resp'.updates}
                   = {d.id : d \in {e \in ledger :
                          /\ e.userId = u
                          /\ i /= Undef => e.instanceId = i
                          /\ st /= Undef => cfs[e.personalCFId].serviceType = st
                          /\ cfs[e.personalCFId].version > e.deployedVersion}}
             /\ resp'.hasUpdates <=> resp'.updates /= {}
             /\ resp'.outdatedCount = Cardinality(resp'.updates)]_vars

\* C19 witness: a listUpdates reply with the one outdated entry of the caller,
\* while the caller has another entry that is up to date and another user has
\* an entry too.
C19_OneOutdatedListed ==
    /\ resp.op = "updates" /\ resp.hasUpdates
    /\ Cardinality(resp.updates) = 1
    /\ resp.totalDeployed = 2
    /\ \E e \in ledger : e.userId = "u2"

\* C15: a get, an update or a soft delete of a record that is not stored, is
\* another user's or is soft-deleted, a stopTracking of a ledger row that is not
\* stored or is another user's, and a deployment to an instance that is not
\* stored or is another user's are all answered by the one not-found reply of
\* the operation, and change nothing.
C15_AbsentOrForeignIsNotFound ==
    [][/\ \A u \in Users, id \in CFIds :
             (id \notin StoredIds \/ cfs[id].userId /= u \/ cfs[id].deletedAt /= 0)
             => /\ GetCF(u, id)
                      => /\ resp' = [op |-> "get", status |-> 404,
                                     error |-> "NOT_FOUND", id |-> id]
                         /\ UNCHANGED <<cfs, ledger, remote, req>>
                /\ (\E p \in Patches :
                       /\ ValidName(p[1]) /\ ValidSpecs(p[3])
                       /\ PutFind(u, id, p[1], p[2], p[3]))
                      => /\ resp' = [op |-> "put", status |-> 404,
                                     error |-> "NOT_FOUND"]
                         /\ UNCHANGED <<cfs, ledger, remote, req>>
                /\ DeleteFind(u, id)
                      => /\ resp' = [op |-> "delete", status |-> 404,
                                     error |-> "NOT_FOUND"]
                         /\ UNCHANGED <<cfs, ledger, remote, req>>
       /\ \A u \in Users, id \in 1..(nextDepId + 1) :
             (\A d \in ledger : d.id = id => d.userId /= u)
             => (StopFind(u, id)
                    => /\ resp' = [op |-> "stop", status |-> 404,
                                   error |-> "NOT_FOUND"]
                       /\ UNCHANGED <<cfs, ledger, remote, req>>)
       /\ \A d \in AccessRequests :
             (d[3] \notin Instances \/ InstanceUser[d[3]] /= d[1])
             => (DeployStart(d[1], d[2], d[3])
                    => /\ resp'.status = 404 /\ resp'.error = "NOT_FOUND"
                       /\ resp'.calls = 0
                       /\ UNCHANGED <<cfs, ledger, remote, req>>)]_vars

\* C15 witness: a get of a record of the caller that is soft-deleted got the
\* not-found reply, and another user's record is stored.
C15_SoftDeletedLooksAbsent ==
    /\ resp = [op |-> "get", status |-> 404, error |-> "NOT_FOUND", id |-> 1]
    /\ cfs[1].userId = "u1" /\ cfs[1].deletedAt /= 0
    /\ cfs[4].userId = "u2"

\* the position of the last object of a name in a list
LastOfName(list, n) ==
    CHOOSE i \in DOMAIN list :
        list[i].name = n /\ \A j \in DOMAIN list : list[j].name = n => j <= i

\* C21: the list step of a batch indexes, for every name in the listing, the last
\* object of that name in list order. A successful remote call for a record
\* whose name is in that index is an update of the indexed object's id: no object
\* is added, that object gets the record's payload and the name goes to updated.
\* For a record whose name is not in the index it is a create: one object is
\* appended and the name goes to created.
C21_UpdateIffListed ==
    [][\A r \in InFlight :
          LET list == remote[r.instanceId]
              cf == r.personalCFs[r.k]
          IN
          /\ DeployList(r, TRUE) =>
                \E b \in InFlight' :
                    /\ req' = Swap(r, b)
                    /\ DOMAIN b.index = {list[i].name : i \in DOMAIN list}
                    /\ \A n \in DOMAIN b.index : b.index[n] = list[LastOfName(list, n)]
                    /\ b.existingByName = b.index
          /\ DeployItem(r, TRUE) =>
                \E b \in InFlight' :
                    /\ req' = Swap(r, b)
                    /\ IF cf.name \in DOMAIN r.index
                       THEN /\ b.instanceCFId = r.index[cf.name].id
                            /\ b.updated = Append(r.updated, cf.name)
                            /\ b.created = r.created
                            /\ Len(remote'[r.instanceId]) = Len(list)
                            /\ \A i \in DOMAIN list :
                                  remote'[r.instanceId][i] =
                                      IF list[i].id = r.index[cf.name].id
                                      THEN [id |-> list[i].id] @@ Payload(cf)
                                      ELSE list[i]
                       ELSE /\ b.created = Append(r.created, cf.name)
                            /\ b.updated = r.updated
                            /\ remote'[r.instanceId] =
                                   Append(list, [id |-> b.instanceCFId] @@ Payload(cf))
                            /\ \A i \in DOMAIN list : list[i].id /= b.instanceCFId]_vars

\* C21 witness: two batches that overlapped have each created an object named A;
\* a later batch listed both, indexed the second and has updated it.
C21_UpdatedLastOfTwo ==
    /\ Len(remote["i1"]) = 2
    /\ remote["i1"][1].name = "A" /\ remote["i1"][2].name = "A"
    /\ \E b \in Batches :
          /\ b.updated = <<"A">> /\ b.created = <<>>
          /\ b.index["A"].id = remote["i1"][2].id
          /\ b.instanceCFId = remote["i1"][2].id
          /\ remote["i1"][1].id /= remote["i1"][2].id

\* a deployment batch is in flight
BatchInFlight == \E r \in InFlight : r.op = "deploy"

\* the create-or-update calls a batch has attempted: those that returned and those
\* that threw
Attempted(b) == Len(b.created) + Len(b.updated) + Cardinality(b.threw)

\* a batch has attempted one create or update per record it is past, and its
\* reply comes after one attempt per record
OneAttemptPerRecord ==
    /\ \A b \in InFlight :
          b.op = "deploy" =>
              /\ b.pc = "list" => b.calls = 0 /\ Attempted(b) = 0
              /\ b.pc = "item" => b.calls = b.k /\ Attempted(b) = b.k - 1
              /\ b.pc = "upsert" => b.calls = b.k + 1 /\ Attempted(b) = b.k
    /\ (resp.op = "deploy" /\ resp.pc = "done") =>
          /\ resp.calls = 1 + Len(resp.ids)
          /\ Attempted(resp) = Len(resp.ids)
          /\ Len(resp.personalCFs) = Len(resp.ids)
          /\ \A j \in DOMAIN resp.personalCFs :
                LET cf == resp.personalCFs[j]
                IN Count(resp.created \o resp.updated, cf.name)
                       + (IF cf.id \in resp.threw THEN 1 ELSE 0) = 1

\* C22 as stated: every batch in flight replies in the end, the reply of a batch
\* that made a remote call is a BatchResult, and by then one create or update has
\* been attempted for every record.
C22_AlwaysBatchResult ==
    /\ [](OneAttemptPerRecord
            /\ ((resp.op = "deploy" /\ resp.calls >= 1) => resp.pc = "done"))
    /\ (BatchInFlight ~> ~BatchInFlight)

\* C22: every batch in flight replies in the end; a batch whose list call threw
\* is answered by the one error DEPLOYMENT_FAILED, with no create or update
\* attempted and no ledger write; every other batch is answered by a BatchResult,
\* and by then one create or update has been attempted for every record,
\* whatever items failed.
C22_BatchResultUnlessListThrows ==
    /\ [](OneAttemptPerRecord
            /\ ((resp.op = "deploy" /\ resp.calls >= 1 /\ resp.pc /= "done")
                    => /\ resp.status = 500 /\ resp.error = "DEPLOYMENT_FAILED"
                       /\ resp.calls = 1 /\ resp.wrote = {}))
    /\ (BatchInFlight ~> ~BatchInFlight)

\* C22 witness: the reply to a batch of two whose first remote call threw and
\* whose second record was then created and ledgered.
C22_SecondAttemptedAfterFailure ==
    /\ resp.op = "deploy" /\ resp.pc = "done"
    /\ Len(resp.personalCFs) = 2
    /\ resp.threw = {resp.personalCFs[1].id}
    /\ resp.failed = <<resp.personalCFs[1].name>>
    /\ resp.created = <<resp.personalCFs[2].name>>
    /\ resp.wrote = {resp.personalCFs[2].id}
    /\ resp.calls = 3

\* C23: a batch that passes the guards holds, for each of its records, the
\* version and the specifications the record has at that one moment; it keeps
\* them as read until it replies; and each of its ledger writes, create or
\* overwrite, leaves the pair's one entry with the version and the
\* specifications of that read, and every other entry as it was. So the entry of
\* a pair holds a version and specifications its record held together.
C23_VersionAndSnapshotOfOneRead ==
    [][/\ \A b \in InFlight' :
             (b.op = "deploy" /\ req' = Add(b)) =>
                 \A j \in DOMAIN b.personalCFs :
                     LET cf == b.personalCFs[j]
                     IN /\ cf.version = cfs[cf.id].version
                        /\ cf.specifications = cfs[cf.id].specifications
       /\ \A r \in InFlight :
             r.op = "deploy" =>
                 /\ \A b \in InFlight' :
                       req' = Swap(r, b) => b.personalCFs = r.personalCFs
                 /\ DeployUpsert(r, TRUE) =>
                       LET cf == r.personalCFs[r.k]
                       IN /\ \E e \in ledger' :
                                /\ Entries(ledger', r.instanceId, cf.id) = {e}
                                /\ e.deployedVersion = cf.version
                                /\ e.deployedSpecsSnapshot = cf.specifications
                          /\ ledger' \ Entries(ledger', r.instanceId, cf.id)
                                = ledger \ Entries(ledger, r.instanceId, cf.id)
       /\ (\A r \in InFlight : ~DeployUpsert(r, TRUE)) => ledger' \subseteq ledger]_vars

\* C23 witness: two batches in flight read record 1 on either side of an edit and
\* both wrote the pair's entry, the one that read version 1 last: the entry has
\* version 1 with the specifications of version 1, and the record is at version 2.
C23_OlderReadWroteLast ==
    \E b, c \in InFlight :
        /\ b.op = "deploy" /\ c.op = "deploy"
        /\ ReadVersion(b, 1) = 1 /\ ReadVersion(c, 1) = 2
        /\ 1 \in b.wrote /\ 1 \in c.wrote
        /\ cfs[1].version = 2 /\ cfs[1].specifications /= "s1"
        /\ \E e \in ledger :
              /\ ledger = {e}
              /\ e.deployedVersion = 1 /\ e.deployedSpecsSnapshot = "s1"

\* C24: in every BatchResult the name of each requested record is in exactly one
\* of created, updated and failed, and the sizes of the three lists add up to the
\* number of requested records.
C24_ExactlyOneBucket ==
    (resp.op = "deploy" /\ resp.pc = "done") =>
        /\ \A j \in DOMAIN resp.personalCFs :
              Count(resp.created \o resp.updated \o resp.failed,
                    resp.personalCFs[j].name) = 1
        /\ Len(resp.created) + Len(resp.updated) + Len(resp.failed) = Len(resp.ids)

\* the updates answered so far: those received less those in flight
Answered == now - BagCardinality(req)

\* C25: every update of the record that submits specifications succeeds, and
\* after N of them have been answered the record's version is 1 + N.
C25_VersionCountsEveryEdit ==
    /\ resp.op = "put" => resp.status = 200 /\ resp.specs /= Undef
    /\ cfs[1].version = 1 + Answered

\* C26: when no batch is in flight, every ledger entry has the specifications of
\* the remote object it points to, which are the last written to that object,
\* and the version its record had with them.
C26_LedgerDescribesRemote ==
    ~BatchInFlight =>
        \A e \in ledger :
            \E i \in DOMAIN remote[e.instanceId] :
                LET obj == remote[e.instanceId][i]
                IN /\ obj.id = e.instanceCFId
                   /\ obj.specifications = e.deployedSpecsSnapshot

\* C27: in every reachable state the deployedVersion of every ledger entry is at
\* most the version of its record.
C27_DeployedAtMostLive ==
    \A e \in ledger : e.deployedVersion <= cfs[e.personalCFId].version

\* C28: in every reachable state the owner of every ledger entry is the owner of
\* its record and of its instance, and its record is for the service of its
\* instance; and no step changes the owner or the service of a record.
C28_EntryOwnerAndService ==
    /\ [](\A e \in ledger :
              /\ e.personalCFId \in StoredIds /\ e.instanceId \in Instances
              /\ e.userId = cfs[e.personalCFId].userId
              /\ e.userId = InstanceUser[e.instanceId]
              /\ cfs[e.personalCFId].serviceType = InstanceService[e.instanceId])
    /\ [][\A i \in StoredIds :
              /\ i \in DOMAIN cfs'
              /\ cfs'[i].userId = cfs[i].userId
              /\ cfs'[i].serviceType = cfs[i].serviceType]_vars

\* C28 witness: each user has a ledger entry for a record and an instance of
\* their own, and a deployment of a record of u1 to the instance of u2 was
\* answered not found.
C28_TwoOwnersAndARefusal ==
    /\ \E e \in ledger : e.userId = "u1" /\ e.instanceId = "i1"
    /\ \E e \in ledger : e.userId = "u2" /\ e.instanceId = "i3"
    /\ resp.op = "deploy" /\ resp.status = 404 /\ resp.error = "NOT_FOUND"
    /\ resp.instanceId = "i3" /\ resp.ids = <<1>>

\* C29: with requests served one after the other and no edit of specifications,
\* take a record whose pair has a ledger entry that points to a remote object of
\* another name, while no object of the instance has the record's name. A
\* successful remote call for it is a create: the object is appended under a new
\* id, every object that was there stays as it was, and the name goes to
\* created. A successful ledger write then overwrites the pair's one entry,
\* under its id, to point to the new object, with deployedVersion as it was.
C29_RenamedIsCreatedAnew ==
    [][\A r \in {x \in InFlight : x.op = "deploy"} :
          LET cf == r.personalCFs[r.k]
              list == remote[r.instanceId]
              named == {i \in DOMAIN list : list[i].name = cf.name}
              prev == Entries(ledger, r.instanceId, cf.id)
          IN \A e \in prev :
                /\ (/\ DeployItem(r, TRUE)
                    /\ named = {}
                    /\ \E i \in DOMAIN list : list[i].id = e.instanceCFId)
                   => /\ Len(remote'[r.instanceId]) = Len(list) + 1
                      /\ \A i \in DOMAIN list : remote'[r.instanceId][i] = list[i]
                      /\ remote'[r.instanceId][Len(list) + 1].name = cf.name
                      /\ \A i \in DOMAIN list :
                            list[i].id /= remote'[r.instanceId][Len(list) + 1].id
                      /\ \E b \in InFlight' :
                            /\ req' = Swap(r, b)
                            /\ b.created = Append(r.created, cf.name)
                            /\ b.updated = r.updated
                            /\ b.instanceCFId = remote'[r.instanceId][Len(list) + 1].id
                /\ (/\ DeployUpsert(r, TRUE)
                    /\ r.instanceCFId /= e.instanceCFId)
                   => \E e2 \in ledger' :
                         /\ ledger' = (ledger \ {e}) \cup {e2}
                         /\ e2.id = e.id
                         /\ e2.instanceCFId = r.instanceCFId
                         /\ e2.deployedVersion = e.deployedVersion
                         /\ e2.deployedVersion = cfs[cf.id].version]_vars

\* C29 witness: record 1 was deployed as A, renamed to C and deployed again: the
\* instance has the object A and a second object C, the reply has C in created,
\* and the pair's one entry points to the second object at version 1.
C29_OldObjectLeftBehind ==
    /\ resp.op = "deploy" /\ resp.pc = "done" /\ resp.status = 200
    /\ resp.created = <<"C">> /\ resp.updated = <<>>
    /\ cfs[1].name = "C" /\ cfs[1].version = 1
    /\ Len(remote["i1"]) = 2
    /\ remote["i1"][1].name = "A" /\ remote["i1"][2].name = "C"
    /\ \E e \in ledger :
          /\ ledger = {e} /\ e.id = 1 /\ e.personalCFId = 1
          /\ e.instanceCFId = remote["i1"][2].id
          /\ e.instanceCFId /= remote["i1"][1].id
          /\ e.deployedVersion = 1


\* a non-deleted record other than self with this owner, name and service-kind
NameUsedByAnother(self, userId, name, serviceType) ==
    \E i \in StoredIds \ {self} :
        /\ cfs[i].deletedAt = 0
        /\ cfs[i].userId = userId
        /\ cfs[i].name = name
        /\ cfs[i].serviceType = serviceType

\* C30: a create, update or soft-delete request that is answered 400, 404 or 409
\* changes no record and no ledger entry: every step that changes a record is the
\* last step of a request answered 200 or 201, and no step of these handlers
\* changes the ledger or an instance. An update with a name and specifications
\* whose duplicate check finds the name on another non-deleted record of the same
\* owner and service-kind is answered 409 DUPLICATE_NAME and no record changes; a
\* soft-delete of a record that is already soft-deleted is answered 404 NOT_FOUND
\* and the record keeps its deletedAt; an update or create that fails validation
\* is answered 400 and no record changes.
C30_RejectedChangesNothing ==
    [][/\ cfs' /= cfs
            => \E r \in InFlight :
                    /\ req' = Drop(r)
                    /\ resp'.op = r.op
                    /\ resp'.status \in {200, 201}
       /\ UNCHANGED <<ledger, remote>>
       /\ \A r \in {x \in InFlight : x.op = "put"} :
            (/\ PutDup(r)
             /\ r.specs /= Undef
             /\ NameUsedByAnother(r.id, r.userId, r.name, r.cf.serviceType))
                => /\ resp' = [op |-> "put", status |-> 409, error |-> "DUPLICATE_NAME"]
                   /\ req' = Drop(r)
                   /\ cfs'[r.id].name = cfs[r.id].name
                   /\ cfs'[r.id].specifications = cfs[r.id].specifications
                   /\ cfs'[r.id].version = cfs[r.id].version
                   /\ cfs' = cfs
       /\ \A u \in Users, id \in StoredIds :
            (cfs[id].deletedAt /= 0 /\ DeleteFind(u, id))
                => /\ resp' = [op |-> "delete", status |-> 404, error |-> "NOT_FOUND"]
                   /\ cfs'[id].deletedAt = cfs[id].deletedAt
                   /\ cfs' = cfs /\ req' = req
       /\ \A u \in Users, id \in StoredIds :
            PutFind(u, id, Undef, "undef", EmptySpecs)
                => /\ resp' = [op |-> "put", status |-> 400, error |-> "VALIDATION_ERROR"]
                   /\ cfs' = cfs /\ req' = req
       /\ PostFind("u1", EmptyName, "RADARR", "undef", "s1")
                => /\ resp' = [op |-> "post", status |-> 400, error |-> "VALIDATION_ERROR"]
                   /\ cfs' = cfs /\ req' = req
      ]_vars

\* Record 1 was edited once (version 2, specifications s2); the update that
\* renames it to B, the name of the live record 2, and submits specifications was
\* then answered 409: record 1 still has its name, specifications and version,
\* and the ledger has the two seeded rows.
C30_ConflictLeftRecordAsItWas ==
    /\ resp = [op |-> "put", status |-> 409, error |-> "DUPLICATE_NAME"]
    /\ req = EmptyBag
    /\ cfs[2].deletedAt = 0 /\ cfs[2].name = "B"
    /\ cfs[1].name = "A" /\ cfs[1].specifications = "s2" /\ cfs[1].version = 2
    /\ ledger = {SeedRow(1, 3, "i2"), SeedRow(2, 4, "i3")}
====
